---- MODULE Spec2Model ----
(***************************************************************************)
(* A model of country_alerts.py: RSS + Google CSE retrieval, the playlist  *)
(* noise filter, URL de-duplication and grouping per artist, trust/recency *)
(* ranking, and the Discord notification of the composed alerts.           *)
(*                                                                         *)
(* Python strings are sequences of one-character strings, so that `in`,    *)
(* lower(), concatenation and string comparison are computed character by  *)
(* character, as the interpreter computes them.                            *)
(***************************************************************************)
EXTENDS Integers, Sequences, FiniteSets, TLC

-----------------------------------------------------------------------------
(* String literals of the source. *)

s_history == <<"h", "i", "s", "t", "o", "r", "y">>
s_playlist == <<"p", "l", "a", "y", "l", "i", "s", "t">>
s_playlists == <<"p", "l", "a", "y", "l", "i", "s", "t", "s">>
s_spotify_playlist == <<"s", "p", "o", "t", "i", "f", "y", " ", "p", "l", "a", "y", "l", "i", "s", "t">>
s_apple_music_playlist == <<"a", "p", "p", "l", "e", " ", "m", "u", "s", "i", "c", " ", "p", "l", "a", "y", "l", "i", "s", "t">>
s_best_playlist == <<"b", "e", "s", "t", " ", "p", "l", "a", "y", "l", "i", "s", "t">>
s_curated_playlist == <<"c", "u", "r", "a", "t", "e", "d", " ", "p", "l", "a", "y", "l", "i", "s", "t">>
h_billboard == <<"b", "i", "l", "l", "b", "o", "a", "r", "d", ".", "c", "o", "m">>
h_rollingstone == <<"r", "o", "l", "l", "i", "n", "g", "s", "t", "o", "n", "e", ".", "c", "o", "m">>
h_variety == <<"v", "a", "r", "i", "e", "t", "y", ".", "c", "o", "m">>
h_countrynow == <<"c", "o", "u", "n", "t", "r", "y", "n", "o", "w", ".", "c", "o", "m">>
h_theboot == <<"t", "h", "e", "b", "o", "o", "t", ".", "c", "o", "m">>
h_consequence == <<"c", "o", "n", "s", "e", "q", "u", "e", "n", "c", "e", ".", "n", "e", "t">>
h_tasteofcountry == <<"t", "a", "s", "t", "e", "o", "f", "c", "o", "u", "n", "t", "r", "y", ".", "c", "o", "m">>
a_LukeCombs == <<"L", "u", "k", "e", " ", "C", "o", "m", "b", "s">>
a_ZachBryan == <<"Z", "a", "c", "h", " ", "B", "r", "y", "a", "n">>

(* PLAYLIST_TERMS, in the order of the tuple. *)
PLAYLIST_TERMS ==
    << s_playlist, s_playlists, s_spotify_playlist, s_apple_music_playlist,
       s_best_playlist, s_curated_playlist >>

(* TRUSTED_HOSTS, in the order of the tuple. *)
TRUSTED_HOSTS ==
    << h_billboard, h_rollingstone, h_variety, h_countrynow, h_theboot,
       h_consequence, h_tasteofcountry >>

(* ARTISTS: two names of DEFAULT_ARTISTS, in roster order. *)
ARTISTS == << a_LukeCombs, a_ZachBryan >>

(* RSS_FEEDS: two of the configured feed locations, in list order. *)
RSS_FEEDS == << "https://www.billboard.com/feed/", "https://variety.com/v/music/news/feed/" >>

LOOKBACK_HOURS_RSS == 24

(* feed.entries[:60] *)
FeedEntryCap == 60

(* items[:5] *)
TopN == 5

-----------------------------------------------------------------------------
(* Python string operations. *)

UPPER ==
    << "A","B","C","D","E","F","G","H","I","J","K","L","M",
       "N","O","P","Q","R","S","T","U","V","W","X","Y","Z" >>

LOWER ==
    << "a","b","c","d","e","f","g","h","i","j","k","l","m",
       "n","o","p","q","r","s","t","u","v","w","x","y","z" >>

(* The lowercase letter of each uppercase letter. *)
LowerOf == [c \in { UPPER[k] : k \in 1..Len(UPPER) } |->
               LOWER[CHOOSE k \in 1..Len(UPPER) : UPPER[k] = c]]

LowerChar(c) == IF c \in DOMAIN LowerOf THEN LowerOf[c] ELSE c

(* str.lower() *)
Lower(s) == [i \in 1..Len(s) |-> LowerChar(s[i])]

(* t in s: t stands at some offset i of s *)
In(t, s) ==
    \E i \in 0..(Len(s) - Len(t)) : \A j \in 1..Len(t) : s[i + j] = t[j]

(* s[:n] *)
Take(s, n) == SubSeq(s, 1, IF Len(s) < n THEN Len(s) ELSE n)

(* f"{title} {snippet} {url}" *)
JoinFields(t, s, u) == t \o <<" ">> \o s \o <<" ">> \o u

(* is_noise_playlist without the "history" override. *)
is_noise_playlist_no_override(title_, snippet_, url_) ==
    LET text == Lower(JoinFields(title_, snippet_, url_))
    IN  \E k \in 1..Len(PLAYLIST_TERMS) : In(PLAYLIST_TERMS[k], text)

is_noise_playlist(title_, snippet_, url_) ==
    LET text == Lower(JoinFields(title_, snippet_, url_))
    IN  IF In(s_history, text)
        THEN FALSE
        ELSE \E k \in 1..Len(PLAYLIST_TERMS) : In(PLAYLIST_TERMS[k], text)

(* any(h in link for h in TRUSTED_HOSTS) *)
trusted_of(link) == \E k \in 1..Len(TRUSTED_HOSTS) : In(TRUSTED_HOSTS[k], link)

-----------------------------------------------------------------------------
(* datetime: a struct_time prefix <<year, month, day, hour, minute, second>>, *)
(* in UTC. <<>> is None.                                                      *)

DIGITS == << "0","1","2","3","4","5","6","7","8","9" >>

(* The decimal digits of n, most significant first. *)
RECURSIVE Decimal(_)
Decimal(n) == IF n < 10 THEN << DIGITS[n + 1] >> ELSE Decimal(n \div 10) \o << DIGITS[(n % 10) + 1] >>

(* "%0wd" % n *)
RECURSIVE ZeroPad(_, _)
ZeroPad(s, w) == IF Len(s) >= w THEN s ELSE ZeroPad(<<"0">> \o s, w)

Field(n, w) == ZeroPad(Decimal(n), w)

(* datetime(..., tzinfo=timezone.utc).isoformat(), microsecond = 0 *)
isoformat(d) ==
    Field(d[1], 4) \o <<"-">> \o Field(d[2], 2) \o <<"-">> \o Field(d[3], 2) \o <<"T">>
    \o Field(d[4], 2) \o <<":">> \o Field(d[5], 2) \o <<":">> \o Field(d[6], 2)
    \o <<"+", "0", "0", ":", "0", "0">>

(* d1 < d2 on datetimes of one timezone: field by field. *)
RECURSIVE TupleLess(_, _)
TupleLess(d1, d2) ==
    IF d1 = <<>> \/ d2 = <<>> THEN FALSE
    ELSE IF Head(d1) # Head(d2) THEN Head(d1) < Head(d2)
    ELSE TupleLess(Tail(d1), Tail(d2))

(* d - timedelta(hours=h), for an h that stays inside d's month. *)
MinusHours(d, h) ==
    LET t == (d[3] - 1) * 24 + d[4] - h
    IN  << d[1], d[2], (t \div 24) + 1, t % 24, d[5], d[6] >>

(* dt.now(timezone.utc) at the start of recent_rss_hits *)
NOW == << 2024, 1, 10, 12, 0, 0 >>

since == MinusHours(NOW, LOOKBACK_HOURS_RSS)

(* The characters of an isoformat() string, by ascending code point. *)
CODEPOINTS == << "+", "-", "0","1","2","3","4","5","6","7","8","9", ":", "T" >>

Ord(c) == CHOOSE k \in 1..Len(CODEPOINTS) : CODEPOINTS[k] = c

(* a < b on str: the first differing character decides, a proper prefix is less. *)
RECURSIVE StrLess(_, _)
StrLess(a, b) ==
    IF b = <<>> THEN FALSE
    ELSE IF a = <<>> THEN TRUE
    ELSE IF Head(a) # Head(b) THEN Ord(Head(a)) < Ord(Head(b))
    ELSE StrLess(Tail(a), Tail(b))

-----------------------------------------------------------------------------
(* recent_rss_hits: one feed entry. *)

(* getattr(e, "published_parsed", None) or getattr(e, "updated_parsed", None) *)
EntryPub(e) == IF e.published_parsed # <<>> THEN e.published_parsed ELSE e.updated_parsed

RssHit(a, e) ==
    [ source |-> "rss", artist |-> a, title |-> e.title, url |-> e.link,
      snippet |-> e.summary, published |-> isoformat(EntryPub(e)),
      trusted |-> trusted_of(e.link) ]

(* for a in ARTISTS: if a.lower() in text: hits.append(...) *)
RECURSIVE MatchArtists(_, _, _)
MatchArtists(k, text, e) ==
    IF k > Len(ARTISTS) THEN <<>>
    ELSE (IF In(Lower(ARTISTS[k]), text) THEN << RssHit(ARTISTS[k], e) >> ELSE <<>>)
         \o MatchArtists(k + 1, text, e)

(* The body of the entries loop for entry e: the records it appends and   *)
(* whether it raises (e.title or e.link of an entry that lacks it raises  *)
(* AttributeError, after the timestamp checks).                           *)
EntryResult(e) ==
    LET pub == EntryPub(e)
    IN  IF pub = <<>> THEN [raised |-> FALSE, hits |-> <<>>]
        ELSE IF TupleLess(pub, since) THEN [raised |-> FALSE, hits |-> <<>>]
        ELSE IF e.missing # {} THEN [raised |-> TRUE, hits |-> <<>>]
        ELSE IF is_noise_playlist(e.title, e.summary, e.link)
             THEN [raised |-> FALSE, hits |-> <<>>]
        ELSE [raised |-> FALSE,
              hits |-> MatchArtists(1, Lower(e.title \o <<" ">> \o e.summary), e)]

-----------------------------------------------------------------------------
(* google_search_news and cse_hits_for_artists. *)

CseHit(it) ==
    [ source |-> "cse", artist |-> <<>>, title |-> it.title, url |-> it.link,
      snippet |-> it.snippet, published |-> <<>>, trusted |-> trusted_of(it.link) ]

(* for it in items: ... out.append(...) ; an item without .get raises. *)
RECURSIVE SearchItems(_)
SearchItems(items) ==
    IF items = <<>> THEN [raised |-> FALSE, out |-> <<>>]
    ELSE LET it == Head(items)
             rest == SearchItems(Tail(items))
         IN  IF ~it.is_dict THEN [raised |-> TRUE, out |-> <<>>]
             ELSE IF rest.raised THEN rest
             ELSE IF is_noise_playlist(it.title, it.snippet, it.link) THEN rest
             ELSE [raised |-> FALSE, out |-> << CseHit(it) >> \o rest.out]

(* google_search_news(query, num): configured is CSE_API_KEY and CSE_CX;  *)
(* resp is what requests.get brings back.                                 *)
google_search_news(configured, resp) ==
    IF ~configured THEN <<>>
    ELSE IF ~resp.ok THEN <<>>
    ELSE LET r == SearchItems(resp.items)
         IN  IF r.raised THEN <<>> ELSE r.out

(* for it in items: it["artist"] = a *)
TagArtist(items, a) == [i \in 1..Len(items) |-> [items[i] EXCEPT !.artist = a]]

-----------------------------------------------------------------------------
(* build_rule_alerts. by_artist is a dict: a sequence of [artist, items]  *)
(* in insertion order.                                                    *)

BucketIndex(buckets, a) ==
    IF \E k \in 1..Len(buckets) : buckets[k].artist = a
    THEN CHOOSE k \in 1..Len(buckets) : buckets[k].artist = a
    ELSE 0

(* by_artist.setdefault(h["artist"], []).append(h) *)
SetDefaultAppend(buckets, h) ==
    LET k == BucketIndex(buckets, h.artist)
    IN  IF k = 0
        THEN Append(buckets, [artist |-> h.artist, items |-> << h >>])
        ELSE [buckets EXCEPT ![k].items = Append(@, h)]

(* The grouping loop with the seen set kept per artist. *)
RECURSIVE GroupPerArtist(_, _, _)
GroupPerArtist(hits, seen, buckets) ==
    IF hits = <<>> THEN buckets
    ELSE LET h == Head(hits)
         IN  IF << h.artist, h.url >> \in seen
             THEN GroupPerArtist(Tail(hits), seen, buckets)
             ELSE GroupPerArtist(Tail(hits), seen \cup {<< h.artist, h.url >>},
                                 SetDefaultAppend(buckets, h))

(* The grouping loop in which a later record of a URL replaces the kept one. *)
RECURSIVE GroupLastWins(_, _, _)
GroupLastWins(hits, seen, buckets) ==
    IF hits = <<>> THEN buckets
    ELSE LET h == Head(hits)
         IN  IF \E k \in 1..Len(Tail(hits)) : Tail(hits)[k].url = h.url
             THEN GroupLastWins(Tail(hits), seen, buckets)
             ELSE GroupLastWins(Tail(hits), seen \cup {h.url}, SetDefaultAppend(buckets, h))

(* for h in hits: if h["url"] in seen: continue; seen.add(...); ...append(h) *)
RECURSIVE Group(_, _, _)
Group(hits, seen, buckets) ==
    IF hits = <<>> THEN buckets
    ELSE LET h == Head(hits)
         IN  IF h.url \in seen
             THEN Group(Tail(hits), seen, buckets)
             ELSE Group(Tail(hits), seen \cup {h.url}, SetDefaultAppend(buckets, h))

(* The sort key with trusted records last. *)
KeyLessTrustedLast(x, y) ==
    IF x.trusted # y.trusted THEN y.trusted
    ELSE StrLess(x.published, y.published)

(* key(x) < key(y), key = (not x["trusted"], x["published"] or ""): False *)
(* sorts before True, then the strings compare.                           *)
KeyLess(x, y) ==
    IF (~x.trusted) # (~y.trusted) THEN ~(~x.trusted)
    ELSE StrLess(x.published, y.published)

(* x placed in the sorted s before the first element greater than it: a   *)
(* stable sort, as list.sort is.                                          *)
RECURSIVE InsertSorted(_, _)
InsertSorted(x, s) ==
    IF s = <<>> THEN << x >>
    ELSE IF KeyLess(x, Head(s)) THEN << x >> \o s
    ELSE << Head(s) >> \o InsertSorted(x, Tail(s))

RECURSIVE SortFrom(_, _)
SortFrom(acc, rest) ==
    IF rest = <<>> THEN acc ELSE SortFrom(InsertSorted(Head(rest), acc), Tail(rest))

(* items.sort(key=...) *)
SortItems(items) == SortFrom(<<>>, items)

(* top = items[:5] *)
Top(items) == Take(items, TopN)

(* by_artist after the loops of build_rule_alerts: grouped, each list     *)
(* sorted in place.                                                       *)
RuleBuckets(hits) ==
    LET g == Group(hits, {}, <<>>)
    IN  [k \in 1..Len(g) |-> [artist |-> g[k].artist, items |-> SortItems(g[k].items)]]

(* One alert per bucket, in dict order. top is the ranked list the        *)
(* alert's links are written from; label is the title or, if empty, the   *)
(* URL.                                                                   *)
RuleAlert(b) ==
    LET top == Top(b.items)
    IN  [ kind |-> "rule", title |-> b.artist, top |-> top,
          links |-> [i \in 1..Len(top) |->
                        << IF top[i].title = <<>> THEN top[i].url ELSE top[i].title,
                           top[i].url >>] ]

(* for artist, items in by_artist.items(): ... alerts.append(...) *)
AlertsOf(buckets) == [k \in 1..Len(buckets) |-> RuleAlert(buckets[k])]

build_rule_alerts(hits) == AlertsOf(RuleBuckets(hits))

-----------------------------------------------------------------------------
(* What the outside world can hand to a run: feed entries, search items.  *)

t_tour == <<"L", "u", "k", "e", " ", "C", "o", "m", "b", "s", " ", "A", "n", "n", "o", "u", "n", "c", "e", "s", " ", "T", "o", "u", "r">>
t_both == <<"Z", "a", "c", "h", " ", "B", "r", "y", "a", "n", " ", "j", "o", "i", "n", "s", " ", "L", "u", "k", "e", " ", "C", "o", "m", "b", "s">>
t_zach == <<"Z", "a", "c", "h", " ", "B", "r", "y", "a", "n", " ", "U", "p", "d", "a", "t", "e">>
t_mix == <<"Z", "A", "C", "H", " ", "B", "R", "Y", "A", "N", " ", "P", "L", "A", "Y", "L", "I", "S", "T">>
l_billboard == <<"h", "t", "t", "p", "s", ":", "/", "/", "w", "w", "w", ".", "b", "i", "l", "l", "b", "o", "a", "r", "d", ".", "c", "o", "m", "/", "a">>
l_blog == <<"h", "t", "t", "p", "s", ":", "/", "/", "b", "l", "o", "g", ".", "i", "o", "/", "c">>
l_ref == <<"h", "t", "t", "p", "s", ":", "/", "/", "b", "l", "o", "g", ".", "i", "o", "/", "?", "r", "=", "v", "a", "r", "i", "e", "t", "y", ".", "c", "o", "m">>
f_History == <<"H", "i", "s", "t", "o", "r", "y">>
f_PLAYLIST == <<"P", "L", "A", "Y", "L", "I", "S", "T">>
f_hist == <<"h", "i", "s", "t">>
f_ory == <<"o", "r", "y">>
f_Play == <<"P", "l", "a", "y">>
f_list == <<"l", "i", "s", "t">>
f_news == <<"n", "e", "w", "s">>

(* Feed entries and search items the sources deliver in one run, all told. *)
MaxInputs == 3

Entry(t, s, l, p, u, m) ==
    [ title |-> t, summary |-> s, link |-> l, published_parsed |-> p,
      updated_parsed |-> u, missing |-> m ]

EntryPool ==
    { Entry(t_tour, <<>>, l_billboard, << 2024, 1, 10, 8, 0, 0 >>, <<>>, {}),
      Entry(t_both, <<>>, l_ref, << 2024, 1, 9, 20, 0, 0 >>, <<>>, {}),
      Entry(t_zach, <<>>, l_ref, <<>>, << 2024, 1, 10, 9, 0, 0 >>, {}),
      Entry(t_mix, <<>>, l_blog, << 2024, 1, 10, 9, 0, 0 >>, <<>>, {}),
      Entry(t_zach, <<>>, l_blog, << 2024, 1, 8, 20, 0, 0 >>, <<>>, {}),
      Entry(t_zach, <<>>, l_blog, <<>>, <<>>, {}),
      Entry(t_zach, <<>>, <<>>, << 2024, 1, 10, 9, 0, 0 >>, <<>>, {"link"}) }

Item(t, l, s, d) == [ title |-> t, link |-> l, snippet |-> s, is_dict |-> d ]

(* it.get("link", "") of an item without a link is "". *)
ItemPool ==
    { Item(t_zach, l_ref, <<>>, TRUE),
      Item(t_tour, l_billboard, <<>>, TRUE),
      Item(t_zach, <<>>, <<>>, TRUE),
      Item(t_mix, l_blog, <<>>, TRUE),
      Item(<<>>, <<>>, <<>>, FALSE) }

SeqsUpTo(S, n) == UNION { [1..k -> S] : k \in 0..n }

(* The entries a feed can hold when the sources have n inputs left. *)
FeedContents(n) == SeqsUpTo(EntryPool, n)

(* What requests.get can bring back when the sources have n inputs left. *)
Responses(n) ==
    { [ok |-> FALSE, items |-> <<>>] }
    \cup { [ok |-> TRUE, items |-> s] : s \in SeqsUpTo(ItemPool, n) }

(* What gemini_alerts_from_evidence can come back with. *)
GeminiOutcomes == { "alerts", "empty", "malformed", "throws" }

-----------------------------------------------------------------------------
VARIABLES
    pc,             \* where the run is
    budget,         \* inputs the sources can still deliver to this run's requests
    USE_GEMINI,     \* bool(GEMINI_KEY), cleared when the import fails
    cse_configured, \* CSE_API_KEY and CSE_CX are both set
    feed_i,         \* index into RSS_FEEDS of the feed being read
    feed,           \* feed.entries[:60] of that feed
    entry_i,        \* index of the entry being processed
    mark,           \* len(hits) when that feed was started
    feed_log,       \* per finished feed: did it fail, what it left in hits
    rss,            \* hits of recent_rss_hits
    artist_i,       \* index into ARTISTS of the artist being searched
    cse,            \* hits of cse_hits_for_artists
    merged,         \* rss + cse
    by_artist,      \* by_artist of build_rule_alerts
    alerts,         \* alerts of run
    gemini,         \* how the call of gemini_alerts_from_evidence ended
    alert_i,        \* index of the alert being sent
    sent,           \* the messages passed to send_discord, in order
    in_title,       \* is_noise_playlist: title
    in_snippet,     \* is_noise_playlist: snippet
    in_url,         \* is_noise_playlist: url
    out_noise       \* is_noise_playlist: the value returned

vars ==
    << pc, budget, USE_GEMINI, cse_configured, feed_i, feed, entry_i, mark, feed_log, rss,
       artist_i, cse, merged, by_artist, alerts, gemini, alert_i, sent,
       in_title, in_snippet, in_url, out_noise >>

noise_vars == << in_title, in_snippet, in_url, out_noise >>

rss_vars == << feed_i, feed, entry_i, mark, feed_log, rss >>

Blank ==
    /\ budget = MaxInputs
    /\ feed_i = 1
    /\ feed = <<>>
    /\ entry_i = 0
    /\ mark = 0
    /\ feed_log = <<>>
    /\ rss = <<>>
    /\ artist_i = 1
    /\ cse = <<>>
    /\ merged = <<>>
    /\ by_artist = <<>>
    /\ alerts = <<>>
    /\ gemini = "none"
    /\ alert_i = 0
    /\ sent = <<>>
    /\ in_title = <<>>
    /\ in_snippet = <<>>
    /\ in_url = <<>>
    /\ out_noise = "unset"

Init ==
    /\ pc = "rss_feed"
    /\ USE_GEMINI \in BOOLEAN
    /\ cse_configured \in BOOLEAN
    /\ Blank

-----------------------------------------------------------------------------
(* recent_rss_hits *)

(* The records the entries es append when none of them raises. *)
RECURSIVE Emitted(_)
Emitted(es) == IF es = <<>> THEN <<>> ELSE EntryResult(Head(es)).hits \o Emitted(Tail(es))

(* hits after an entry, were a raising entry to take its feed's records back. *)
HitsAfterEntryRollback(hits, start, r) ==
    IF r.raised THEN SubSeq(hits, 1, start) ELSE hits \o r.hits

(* hits after the body of the entries loop ran for an entry with result r: *)
(* what was appended stays, also when the entry raises.                    *)
HitsAfterEntry(hits, start, r) == hits \o r.hits

(* except Exception: continue, or the end of feed.entries: on to the next *)
(* feed, or out of the loop and on to cse_hits_for_artists. The log keeps *)
(* whether the feed failed, the part of hits it left (from, to] and how   *)
(* many records its entries had appended before it ended.                 *)
NextFeed(failed, start, hits, done_entries) ==
    /\ feed_log' = Append(feed_log,
                     [ failed |-> failed, from |-> start, to |-> Len(hits),
                       emitted |-> Len(Emitted(done_entries)) ])
    /\ feed_i' = feed_i + 1
    /\ feed' = <<>>
    /\ entry_i' = 0
    /\ pc' = IF feed_i = Len(RSS_FEEDS) THEN "cse" ELSE "rss_feed"

(* feedparser.parse(url) raises: the feed is skipped. *)
ParseFeedRaises ==
    /\ pc = "rss_feed"
    /\ mark' = Len(rss)
    /\ rss' = rss
    /\ NextFeed(TRUE, Len(rss), rss, <<>>)
    /\ UNCHANGED << budget, USE_GEMINI, cse_configured, artist_i, cse, merged, by_artist,
                    alerts, gemini, alert_i, sent, noise_vars >>

(* feed = feedparser.parse(url); for e in feed.entries[:60] *)
ParseFeed ==
    /\ pc = "rss_feed"
    /\ \E content \in FeedContents(budget) :
         LET entries == Take(content, FeedEntryCap)
         IN  /\ budget' = budget - Len(content)
             /\ mark' = Len(rss)
             /\ rss' = rss
             /\ IF entries = <<>>
                THEN NextFeed(FALSE, Len(rss), rss, <<>>)
                ELSE /\ feed' = entries
                     /\ entry_i' = 1
                     /\ pc' = "rss_entry"
                     /\ UNCHANGED << feed_i, feed_log >>
    /\ UNCHANGED << USE_GEMINI, cse_configured, artist_i, cse, merged, by_artist,
                    alerts, gemini, alert_i, sent, noise_vars >>

(* One pass of the entries loop, lines 120-142. *)
ProcessEntry ==
    /\ pc = "rss_entry"
    /\ LET r == EntryResult(feed[entry_i])
           hits == HitsAfterEntry(rss, mark, r)
       IN  /\ rss' = hits
           /\ IF r.raised
              THEN NextFeed(TRUE, mark, hits, SubSeq(feed, 1, entry_i - 1))
              ELSE IF entry_i = Len(feed)
              THEN NextFeed(FALSE, mark, hits, feed)
              ELSE /\ entry_i' = entry_i + 1
                   /\ UNCHANGED << pc, feed_i, feed, feed_log >>
    /\ UNCHANGED << budget, mark, USE_GEMINI, cse_configured, artist_i, cse, merged, by_artist,
                    alerts, gemini, alert_i, sent, noise_vars >>

-----------------------------------------------------------------------------
(* cse_hits_for_artists: one pass of the loop over ARTISTS. *)

SearchArtist ==
    /\ pc = "cse"
    /\ \E resp \in Responses(budget) :
         /\ budget' = IF artist_i = Len(ARTISTS) THEN 0 ELSE budget - Len(resp.items)
         /\ cse' = cse \o TagArtist(google_search_news(cse_configured, resp), ARTISTS[artist_i])
    /\ IF artist_i = Len(ARTISTS)
       THEN pc' = "merge" /\ artist_i' = artist_i
       ELSE pc' = "cse" /\ artist_i' = artist_i + 1
    /\ UNCHANGED << USE_GEMINI, cse_configured, rss_vars, merged, by_artist,
                    alerts, gemini, alert_i, sent, noise_vars >>

-----------------------------------------------------------------------------
(* run *)

(* send_discord(message): the message is handed over; whether the webhook *)
(* is set and whether the POST succeeds changes nothing in the run.       *)
send_discord(log, message) == Append(log, message)

NoFreshSignals == [ kind |-> "no_fresh_signals", title |-> <<>> ]

NoAlertsTriggered == [ kind |-> "no_alerts", title |-> <<>> ]

AlertMessage(a) == [ kind |-> "alert", title |-> a.title ]

(* Merge returning on an empty list without a word to the notifier. *)
MergeSilent ==
    /\ pc = "merge"
    /\ merged' = rss \o cse
    /\ sent' = sent
    /\ pc' = IF merged' = <<>> THEN "done" ELSE "compose"
    /\ UNCHANGED << budget, USE_GEMINI, cse_configured, rss_vars, artist_i, cse, by_artist,
                    alerts, gemini, alert_i, noise_vars >>

(* Merge with the search records put first: merged = cse + rss. *)
MergeSearchFirst ==
    /\ pc = "merge"
    /\ merged' = cse \o rss
    /\ IF merged' = <<>>
       THEN /\ sent' = send_discord(sent, NoFreshSignals)
            /\ pc' = "done"
       ELSE /\ sent' = sent
            /\ pc' = "compose"
    /\ UNCHANGED << budget, USE_GEMINI, cse_configured, rss_vars, artist_i, cse, by_artist,
                    alerts, gemini, alert_i, noise_vars >>

(* merged = rss + cse; if not merged: send_discord(...); return *)
Merge ==
    /\ pc = "merge"
    /\ merged' = rss \o cse
    /\ IF merged' = <<>>
       THEN /\ sent' = send_discord(sent, NoFreshSignals)
            /\ pc' = "done"
       ELSE /\ sent' = sent
            /\ pc' = "compose"
    /\ UNCHANGED << budget, USE_GEMINI, cse_configured, rss_vars, artist_i, cse, by_artist,
                    alerts, gemini, alert_i, noise_vars >>

(* by_artist of run, lines 275-280: the evidence per artist, nothing dropped. *)
RECURSIVE Evidence(_, _)
Evidence(hits, buckets) ==
    IF hits = <<>> THEN buckets
    ELSE Evidence(Tail(hits), SetDefaultAppend(buckets, Head(hits)))

(* The alerts a working collaborator returns: one per artist of the evidence. *)
GeminiAlerts(evidence) ==
    [k \in 1..Len(evidence) |->
        [ kind |-> "gemini", title |-> evidence[k].artist, top |-> <<>>, links |-> <<>> ]]

(* A non-empty return value whose elements are no dicts. *)
MalformedAlerts == << [ kind |-> "malformed", title |-> <<>>, top |-> <<>>, links |-> <<>> ] >>

(* if not alerts: send_discord(...); return -- else on to the send loop *)
AfterCompose(as) ==
    IF as = <<>>
    THEN /\ sent' = send_discord(sent, NoAlertsTriggered)
         /\ pc' = "done"
         /\ alert_i' = alert_i
    ELSE /\ sent' = sent
         /\ pc' = "send"
         /\ alert_i' = 1

(* Lines 283-287: alerts = gemini_alerts_from_evidence(by_artist), with   *)
(* no handler around the call; if not alerts: build_rule_alerts(merged).  *)
ComposeGemini ==
    /\ pc = "compose"
    /\ USE_GEMINI
    /\ \E g \in GeminiOutcomes :
         /\ gemini' = g
         /\ IF g = "throws"
            THEN /\ pc' = "crashed"
                 /\ UNCHANGED << alerts, by_artist, sent, alert_i >>
            ELSE /\ IF g = "empty"
                    THEN /\ by_artist' = RuleBuckets(merged)
                         /\ alerts' = AlertsOf(by_artist')
                    ELSE /\ alerts' = IF g = "alerts"
                                      THEN GeminiAlerts(Evidence(merged, <<>>))
                                      ELSE MalformedAlerts
                         /\ by_artist' = by_artist
                 /\ AfterCompose(alerts')
    /\ UNCHANGED << budget, USE_GEMINI, cse_configured, rss_vars, artist_i, cse, merged, noise_vars >>

(* Lines 288-289: alerts = build_rule_alerts(merged) *)
ComposeRules ==
    /\ pc = "compose"
    /\ ~USE_GEMINI
    /\ by_artist' = RuleBuckets(merged)
    /\ alerts' = AlertsOf(by_artist')
    /\ AfterCompose(alerts')
    /\ UNCHANGED << budget, USE_GEMINI, cse_configured, rss_vars, artist_i, cse, merged,
                    gemini, noise_vars >>

(* One pass of the loop of lines 297-300: a.get of an element that is no  *)
(* dict raises, and nothing in run catches it.                            *)
SendAlert ==
    /\ pc = "send"
    /\ LET a == alerts[alert_i]
       IN  IF a.kind = "malformed"
           THEN /\ pc' = "crashed"
                /\ UNCHANGED << sent, alert_i >>
           ELSE /\ sent' = send_discord(sent, AlertMessage(a))
                /\ IF alert_i = Len(alerts)
                   THEN pc' = "done" /\ alert_i' = alert_i
                   ELSE pc' = "send" /\ alert_i' = alert_i + 1
    /\ UNCHANGED << budget, USE_GEMINI, cse_configured, rss_vars, artist_i, cse, merged,
                    by_artist, alerts, gemini, noise_vars >>

Next ==
    \/ ParseFeedRaises
    \/ ParseFeed
    \/ ProcessEntry
    \/ SearchArtist
    \/ Merge
    \/ ComposeGemini
    \/ ComposeRules
    \/ SendAlert

Spec == Init /\ [][Next]_vars

-----------------------------------------------------------------------------
(* build_rule_alerts on its own: any list of distinct records of the pool, *)
(* in any order.                                                           *)

l_variety == <<"h", "t", "t", "p", "s", ":", "/", "/", "v", "a", "r", "i", "e", "t", "y", ".", "c", "o", "m", "/", "b">>
l_blog2 == <<"h", "t", "t", "p", "s", ":", "/", "/", "b", "l", "o", "g", ".", "i", "o", "/", "d">>

(* Records handed to one call of build_rule_alerts. *)
MaxHits == 6

Tagged(h, a) == [h EXCEPT !.artist = a]

HitPool ==
    { RssHit(a_LukeCombs, Entry(t_tour, <<>>, l_billboard, << 2024, 1, 10, 8, 0, 0 >>, <<>>, {})),
      RssHit(a_LukeCombs, Entry(t_both, <<>>, l_variety, << 2024, 1, 9, 20, 0, 0 >>, <<>>, {})),
      RssHit(a_ZachBryan, Entry(t_both, <<>>, l_variety, << 2024, 1, 9, 20, 0, 0 >>, <<>>, {})),
      RssHit(a_LukeCombs, Entry(t_tour, <<>>, l_blog, << 2024, 1, 10, 8, 0, 0 >>, <<>>, {})),
      RssHit(a_LukeCombs, Entry(t_tour, <<>>, l_blog2, <<>>, << 2024, 1, 9, 20, 0, 0 >>, {})),
      Tagged(CseHit(Item(t_tour, l_billboard, <<>>, TRUE)), a_LukeCombs),
      Tagged(CseHit(Item(t_tour, l_ref, <<>>, TRUE)), a_LukeCombs),
      Tagged(CseHit(Item(t_tour, <<>>, <<>>, TRUE)), a_LukeCombs) }

Range(f) == { f[i] : i \in DOMAIN f }

InitBuild ==
    /\ pc = "build_input"
    /\ USE_GEMINI = FALSE
    /\ cse_configured = TRUE
    /\ Blank

(* One more record in the list the caller is putting together. *)
AddHit ==
    /\ pc = "build_input"
    /\ Len(merged) < MaxHits
    /\ \E h \in HitPool \ Range(merged) : merged' = Append(merged, h)
    /\ UNCHANGED << pc, budget, USE_GEMINI, cse_configured, rss_vars, artist_i, cse,
                    by_artist, alerts, gemini, alert_i, sent, noise_vars >>

(* alerts = build_rule_alerts(merged) *)
CallBuild ==
    /\ pc = "build_input"
    /\ by_artist' = RuleBuckets(merged)
    /\ alerts' = AlertsOf(by_artist')
    /\ pc' = "build_done"
    /\ UNCHANGED << budget, USE_GEMINI, cse_configured, rss_vars, artist_i, cse, merged,
                    gemini, alert_i, sent, noise_vars >>

NextBuild == AddHit \/ CallBuild

SpecBuild == InitBuild /\ [][NextBuild]_vars

-----------------------------------------------------------------------------
(* is_noise_playlist on its own: title, snippet and url put together from *)
(* fragments.                                                             *)

(* Fragments in a title. *)
MaxFrags == 2

Fragments == { f_History, f_PLAYLIST, f_hist, f_ory, f_Play, f_list, f_news }

RECURSIVE Concat(_)
Concat(fs) == IF fs = <<>> THEN <<>> ELSE Head(fs) \o Concat(Tail(fs))

Texts(n) == { Concat(fs) : fs \in SeqsUpTo(Fragments, n) }

InitNoise ==
    /\ pc = "noise_call"
    /\ USE_GEMINI = FALSE
    /\ cse_configured = TRUE
    /\ Blank

(* out_noise = is_noise_playlist(title, snippet, url) *)
Classify ==
    /\ pc = "noise_call"
    /\ \E t \in Texts(MaxFrags), s \in Texts(1), u \in Texts(1) :
         /\ in_title' = t
         /\ in_snippet' = s
         /\ in_url' = u
         /\ out_noise' = is_noise_playlist(t, s, u)
    /\ pc' = "noise_done"
    /\ UNCHANGED << budget, USE_GEMINI, cse_configured, rss_vars, artist_i, cse, merged,
                    by_artist, alerts, gemini, alert_i, sent >>

NextNoise == Classify

SpecNoise == InitNoise /\ [][NextNoise]_vars

-----------------------------------------------------------------------------
(* Notions the properties are stated in. *)

(* t occurs in s as a substring. *)
Occurs(t, s) == \E i \in 1..(Len(s) - Len(t) + 1) : SubSeq(s, i, i + Len(t) - 1) = t

(* The places <<bucket, position>> of the records in the buckets. *)
Places(buckets) ==
    UNION { { << b, i >> : i \in 1..Len(buckets[b].items) } : b \in 1..Len(buckets) }

At(buckets, pl) == buckets[pl[1]].items[pl[2]]

(* The index in hits of the first record with URL u. *)
FirstWith(hits, u) ==
    CHOOSE k \in 1..Len(hits) : hits[k].url = u /\ \A j \in 1..(k - 1) : hits[j].url # u

IsDigit(c) == \E k \in 1..Len(DIGITS) : DIGITS[k] = c

DigitVal(c) == (CHOOSE k \in 1..Len(DIGITS) : DIGITS[k] = c) - 1

(* The numbers written in s, in order: its maximal runs of digits. *)
RECURSIVE Numbers(_, _, _)
Numbers(s, cur, open) ==
    IF s = <<>> THEN (IF open THEN << cur >> ELSE <<>>)
    ELSE IF IsDigit(Head(s)) THEN Numbers(Tail(s), cur * 10 + DigitVal(Head(s)), TRUE)
    ELSE (IF open THEN << cur >> ELSE <<>>) \o Numbers(Tail(s), 0, FALSE)

(* The instant an ISO timestamp of offset +00:00 names: year, month, day, *)
(* hour, minute, second.                                                  *)
Instant(p) == SubSeq(Numbers(p, 0, FALSE), 1, 6)

(* The rule-based composer built the alerts of this run. *)
RulePath == pc \in {"send", "done"} /\ merged # <<>> /\ (~USE_GEMINI \/ gemini = "empty")

-----------------------------------------------------------------------------
(* C1: whatever list of records build_rule_alerts is given, a URL sits at *)
(* no more than one place of all the artists' buckets taken together, and *)
(* the record kept for a URL is the first record of the list with it.     *)
C1_DedupFirstWins ==
    pc = "build_done" =>
        /\ \A p1 \in Places(by_artist), p2 \in Places(by_artist) :
              At(by_artist, p1).url = At(by_artist, p2).url => p1 = p2
        /\ \A pl \in Places(by_artist) :
              At(by_artist, pl) = merged[FirstWith(merged, At(by_artist, pl).url)]

(* A call whose list repeats a URL, for one artist and across artists. *)
C1_Witness ==
    /\ pc = "build_done"
    /\ \E i \in 1..Len(merged), j \in 1..Len(merged) :
          i < j /\ merged[i].url = merged[j].url /\ merged[i].artist # merged[j].artist
    /\ \E i \in 1..Len(merged), j \in 1..Len(merged) :
          i < j /\ merged[i].url = merged[j].url /\ merged[i].artist = merged[j].artist
    /\ Len(by_artist) = 2

(* C2: every alert of build_rule_alerts lists at most 5 records, taken    *)
(* from the head of the artist's bucket; a trusted record never follows   *)
(* an untrusted one; within one trust tier a record with a timestamp      *)
(* never precedes one without, and timestamps never go back in time.      *)
C2_Ranked ==
    pc = "build_done" =>
        /\ Len(alerts) = Len(by_artist)
        /\ \A k \in 1..Len(alerts) :
              LET top == alerts[k].top
              IN  /\ Len(top) <= 5
                  /\ top = SubSeq(by_artist[k].items, 1, Len(top))
                  /\ Len(top) = Len(by_artist[k].items) \/ Len(top) = 5
                  /\ \A i \in 1..Len(top), j \in 1..Len(top) :
                        i < j =>
                          /\ ~(~top[i].trusted /\ top[j].trusted)
                          /\ top[i].trusted = top[j].trusted =>
                                /\ ~(top[i].published # <<>> /\ top[j].published = <<>>)
                                /\ (top[i].published # <<>> /\ top[j].published # <<>>)
                                      => ~TupleLess(Instant(top[j].published),
                                                    Instant(top[i].published))

(* A bucket of six cut to five, with both trust tiers, records with and   *)
(* without a timestamp in one tier, and two instants in one tier.         *)
C2_Witness ==
    /\ pc = "build_done"
    /\ \E k \in 1..Len(alerts) :
          LET top == alerts[k].top
          IN  /\ Len(by_artist[k].items) > 5
              /\ Len(top) = 5
              /\ \E i \in 1..5, j \in 1..5 : top[i].trusted /\ ~top[j].trusted
              /\ \E i \in 1..5, j \in 1..5 :
                    /\ top[i].trusted = top[j].trusted
                    /\ top[i].published = <<>> /\ top[j].published # <<>>
              /\ \E i \in 1..5, j \in 1..5 :
                    /\ top[i].trusted = top[j].trusted
                    /\ top[i].published # <<>> /\ top[j].published # <<>>
                    /\ top[i].published # top[j].published

(* C4: is_noise_playlist returns False whenever the lowercased            *)
(* "title snippet url" contains "history", and True whenever it contains  *)
(* a playlist term and no "history".                                      *)
C4_HistoryOverride ==
    pc = "noise_done" =>
        LET text == Lower(in_title \o <<" ">> \o in_snippet \o <<" ">> \o in_url)
            has_term == \E k \in 1..Len(PLAYLIST_TERMS) : Occurs(PLAYLIST_TERMS[k], text)
        IN  /\ Occurs(s_history, text) => out_noise = FALSE
            /\ (has_term /\ ~Occurs(s_history, text)) => out_noise = TRUE

(* A text with "history" and a playlist term, classified as no noise. *)
C4_Witness ==
    /\ pc = "noise_done"
    /\ LET text == Lower(in_title \o <<" ">> \o in_snippet \o <<" ">> \o in_url)
       IN  /\ Occurs(s_history, text)
           /\ Occurs(s_playlist, text)
    /\ out_noise = FALSE

-----------------------------------------------------------------------------
(* C3: with the enrichment collaborator configured and a record retrieved, *)
(* a collaborator that throws, or returns something malformed or empty,    *)
(* never fails the run: the run goes on with the alerts of                 *)
(* build_rule_alerts.                                                      *)
C3_GeminiFailureFallsBack ==
    (USE_GEMINI /\ merged # <<>> /\ gemini \in {"throws", "malformed", "empty"}) =>
        /\ pc # "crashed"
        /\ pc = "done" => alerts = build_rule_alerts(merged)

(* C5: a run whose adapters return no record at all hands the notifier    *)
(* the "no fresh signals" message and nothing else, composes no alert,    *)
(* and is over.                                                           *)
C5_NoRecordsOneNotice ==
    (pc \in {"compose", "send", "done", "crashed"} /\ rss = <<>> /\ cse = <<>>) =>
        /\ pc = "done"
        /\ sent = << NoFreshSignals >>
        /\ alerts = <<>>
        /\ by_artist = <<>>
        /\ gemini = "none"
        /\ ~ENABLED Next

(* A finished run with a feed that failed and a feed that held nothing to *)
(* report.                                                                *)
C5_Witness ==
    /\ pc = "done"
    /\ rss = <<>> /\ cse = <<>>
    /\ \E i \in 1..Len(feed_log) : ~feed_log[i].failed
    /\ \E i \in 1..Len(feed_log) : feed_log[i].failed
    /\ Len(sent) = 1

(* The host of a URL: what stands between "://" and the next "/", "?" or  *)
(* "#", lowercased.                                                       *)
HostOf(u) ==
    LET starts == { i \in 1..(Len(u) - 2) : SubSeq(u, i, i + 2) = <<":", "/", "/">> }
    IN  IF starts = {} THEN <<>>
        ELSE LET a == (CHOOSE i \in starts : \A j \in starts : i <= j) + 3
                 stops == { i \in a..Len(u) : u[i] \in {"/", "?", "#"} }
                 b == IF stops = {} THEN Len(u) + 1
                      ELSE CHOOSE i \in stops : \A j \in stops : i <= j
             IN  Lower(SubSeq(u, a, b - 1))

(* The host is a trusted domain or a subdomain of one. *)
HostTrusted(u) ==
    \E k \in 1..Len(TRUSTED_HOSTS) :
        LET h == TRUSTED_HOSTS[k]
            host == HostOf(u)
        IN  \/ host = h
            \/ /\ Len(host) > Len(h)
               /\ SubSeq(host, Len(host) - Len(h), Len(host)) = <<".">> \o h

(* C6: a record of either adapter is trusted exactly when the host of its *)
(* URL is on the trusted-host list.                                       *)
C6_TrustedIffHostListed ==
    \A i \in 1..Len(rss \o cse) :
        (rss \o cse)[i].trusted <=> HostTrusted((rss \o cse)[i].url)

(* C7, as claimed: a feed that failed has left no record in the list. *)
C7_FailedFeedLeavesNothing ==
    \A i \in 1..Len(feed_log) : feed_log[i].failed => feed_log[i].to = feed_log[i].from

(* C7, amended: every feed is gone through in turn, failed or not, and no *)
(* feed failure ends the run; a feed leaves in the list exactly what its  *)
(* entries appended before it ended, so a feed that fails at an entry     *)
(* keeps the records of its earlier entries and loses only the rest.      *)
C7_FailedFeedKeepsEarlierRecords ==
    /\ Len(feed_log) = feed_i - 1
    /\ pc \notin {"rss_feed", "rss_entry"} =>
          /\ Len(feed_log) = Len(RSS_FEEDS)
          /\ feed_log[Len(feed_log)].to = Len(rss)
    /\ \A i \in 1..Len(feed_log) :
          /\ feed_log[i].from = IF i = 1 THEN 0 ELSE feed_log[i - 1].to
          /\ feed_log[i].to - feed_log[i].from = feed_log[i].emitted
    /\ pc = "rss_entry" =>
          rss = SubSeq(rss, 1, mark) \o Emitted(SubSeq(feed, 1, entry_i - 1))
    /\ pc = "crashed" => (USE_GEMINI /\ gemini \in {"throws", "malformed"})

(* A finished run whose first feed failed after it had appended a record, *)
(* and whose next feed appended one too.                                  *)
C7_Witness ==
    /\ pc = "done"
    /\ \E i \in 1..(Len(feed_log) - 1) :
          /\ feed_log[i].failed
          /\ feed_log[i].to > feed_log[i].from
          /\ feed_log[i + 1].to > feed_log[i + 1].from

(* C8: every record of either adapter has a non-empty URL. *)
C8_UrlNonEmpty ==
    \A i \in 1..Len(rss \o cse) : (rss \o cse)[i].url # <<>>

(* The records with URL u in the buckets. *)
Kept(u) == { pl \in Places(by_artist) : At(by_artist, pl).url = u }

(* C9: on the rule-based path the feed records stand before the search    *)
(* records in merged, and of the records sharing a URL that a feed record *)
(* and a search record both carry, one is kept, a feed record.            *)
C9_FeedCopyWins ==
    RulePath =>
        /\ \A i \in 1..Len(merged), j \in 1..Len(merged) :
              (merged[i].source = "rss" /\ merged[j].source = "cse") => i < j
        /\ \A i \in 1..Len(merged), j \in 1..Len(merged) :
              ( /\ merged[i].source = "rss" /\ merged[j].source = "cse"
                /\ merged[i].url = merged[j].url ) =>
                  /\ Cardinality(Kept(merged[i].url)) = 1
                  /\ \A pl \in Kept(merged[i].url) : At(by_artist, pl).source = "rss"

(* Scenario B: one feed record and one search record of one artist with   *)
(* one URL, and no other record with it; the run is over.                 *)
C9_Witness ==
    /\ pc = "done"
    /\ RulePath
    /\ \E i \in 1..Len(merged), j \in 1..Len(merged) :
          /\ merged[i].source = "rss" /\ merged[j].source = "cse"
          /\ merged[i].url = merged[j].url
          /\ merged[i].artist = a_ZachBryan /\ merged[j].artist = a_ZachBryan
          /\ \A k \in 1..Len(merged) : merged[k].url = merged[i].url => k \in {i, j}


(* The roster positions of the artists whose lowercased name occurs in    *)
(* the lowercased "title summary" of feed record r.                       *)
Mentioned(r) ==
    { k \in 1..Len(ARTISTS) :
        Occurs(Lower(ARTISTS[k]), Lower(r.title \o <<" ">> \o r.snippet)) }

(* The first artist of the roster that the entry of feed record r mentions. *)
FirstMentioned(r) == ARTISTS[CHOOSE k \in Mentioned(r) : \A j \in Mentioned(r) : k <= j]

(* The artists whose buckets hold URL u. *)
Holders(u) == { At(by_artist, pl).artist : pl \in Kept(u) }

(* Every feed record stands in a block of its entry's records: one per    *)
(* mentioned artist, alike but for the artist, in roster order. (rss is   *)
(* final once the run has left the feeds.)                                *)
FanOutInRosterOrder ==
    pc \in {"rss_feed", "rss_entry", "cse"} =>
    \A i \in 1..Len(rss) :
        LET r == rss[i]
            ms == Mentioned(r)
            own == { k \in ms : ARTISTS[k] = r.artist }
        IN  /\ own # {}
            /\ \A k \in ms :
                  LET at == i + Cardinality({ j \in ms : j < k })
                              - Cardinality({ j \in ms : \A o \in own : j < o })
                  IN  at \in 1..Len(rss) /\ rss[at] = [r EXCEPT !.artist = ARTISTS[k]]

(* There is an alert for an artist exactly when a record of that artist   *)
(* is the first of merged with its URL; one alert per bucket.             *)
AlertIffSurvivor ==
    RulePath =>
        /\ Len(alerts) = Len(by_artist)
        /\ \A k \in 1..Len(ARTISTS) :
              (\E a \in 1..Len(alerts) : alerts[a].title = ARTISTS[k])
              <=> (\E i \in 1..Len(merged) :
                      merged[i].artist = ARTISTS[k] /\ FirstWith(merged, merged[i].url) = i)

(* C10, as claimed: the records of an entry that mentions several artists *)
(* come in roster order, and after grouping the entry's URL is in the     *)
(* bucket of the first artist it mentions and in no other; an artist left *)
(* without a surviving record has no alert.                               *)
C10_FirstMentionedKeepsUrl ==
    /\ FanOutInRosterOrder
    /\ AlertIffSurvivor
    /\ RulePath =>
          \A i \in 1..Len(rss) :
              Cardinality(Mentioned(rss[i])) > 1 =>
                  Holders(rss[i].url) = { FirstMentioned(rss[i]) }

(* C10, amended: the records of an entry that mentions several artists    *)
(* come in roster order, and after grouping the entry's URL is in one     *)
(* bucket only, that of the artist of the first record of merged with     *)
(* that URL: the first artist the entry mentions, unless an earlier entry *)
(* brought the URL; an artist left without a surviving record has no      *)
(* alert.                                                                 *)
C10_FirstClaimantKeepsUrl ==
    /\ FanOutInRosterOrder
    /\ AlertIffSurvivor
    /\ RulePath =>
          \A i \in 1..Len(rss) :
              Cardinality(Mentioned(rss[i])) > 1 =>
                  LET u == rss[i].url
                      first == FirstWith(merged, u)
                  IN  /\ Holders(u) = { merged[first].artist }
                      /\ Cardinality(Kept(u)) = 1
                      /\ (\A j \in 1..(i - 1) : rss[j].url = u => rss[j].title = rss[i].title
                                                   /\ rss[j].snippet = rss[i].snippet)
                            => merged[first].artist = FirstMentioned(rss[i])

(* A finished run in which an entry mentioned two artists, the first kept *)
(* the URL and the second, with no other record, got no alert.            *)
C10_Witness ==
    /\ pc = "done"
    /\ RulePath
    /\ \E i \in 1..Len(rss) :
          /\ Cardinality(Mentioned(rss[i])) > 1
          /\ rss[i].artist # FirstMentioned(rss[i])
          /\ Holders(rss[i].url) = { FirstMentioned(rss[i]) }
          /\ \A a \in 1..Len(alerts) : alerts[a].title # rss[i].artist

====
